---------------------------- MODULE Spec2Model ----------------------------
(***************************************************************************)
(* Model of the sim-EPSP stimulus generator (generate_sim_epsp.py) and of  *)
(* the two waveform functions of compare_epsps.py.                         *)
(*                                                                         *)
(* Numbers.  Every real number x of the program that is a time (seconds or *)
(* milliseconds), a time step or a time constant is the integer x * Unit.  *)
(* Arithmetic on them is exact: the rounding of IEEE doubles is not        *)
(* modelled.  Unit is chosen so that every quotient the program forms on   *)
(* the modelled inputs (x / 1000, n / 64 * dt) is again an integer.  A     *)
(* sampling rate is kept in Hz and an amplitude in pA.  The value of       *)
(* np.exp is a fixed-point number scaled by ExpScale; a current is a float *)
(* record (finite, infinite or NaN) whose finite value is scaled by        *)
(* ExpScale * ExpScale.                                                    *)
(***************************************************************************)
EXTENDS Integers, Sequences, FiniteSets, TLC

VARIABLES
    pc,        \* position of the run: which statement of main comes next
    args,      \* argparse namespace (main, lines 348-410)
    delay,     \* main's local `delay` (s)
    time_ms,   \* main's local `time_ms`, the result of generate_time_array (ms)
    time,      \* main's local `time`: numerators of the samples (s)
    tden,      \* common denominator of `time`: sample i is time[i] / tden
    current,   \* main's local `current`
    summary,   \* what write_atf_file prints after the file is closed
    plot,      \* the peak marker plot_stimulus draws
    file,      \* the output file: whether it exists and its lines
    handle,    \* the file object of write_atf_file: "none", "open" or "closed"
    fn         \* waveform function applied last (function-level runs)

vars == <<pc, args, delay, time_ms, time, tden, current, summary, plot, file, handle, fn>>

-----------------------------------------------------------------------------
(* Scales of the number representation *)

AutoDelayDivisor == 64
MsPerSecond == 1000
Unit == AutoDelayDivisor * 100000
ExpScale == 10 * 100
FloatMax == 1000 * 1000 * 1000

Abs(x) == IF x < 0 THEN -x ELSE x
Sgn(x) == IF x < 0 THEN -1 ELSE IF x > 0 THEN 1 ELSE 0
FloorDiv(a, b) == a \div b
CeilDiv(a, b) == -((-a) \div b)

-----------------------------------------------------------------------------
(* Floating-point values: finite, +-inf, NaN, with IEEE's rules for the    *)
(* operations the waveform formulas use.  A finite result beyond FloatMax  *)
(* overflows to an infinity.                                               *)

F(v) == [k |-> "num", v |-> v]
Inf(s) == [k |-> "inf", v |-> s]
NaN == [k |-> "nan", v |-> 0]
Zero == F(0)

FMul(a, b) ==
    IF a.k = "nan" \/ b.k = "nan" THEN NaN
    ELSE IF a.k = "inf" \/ b.k = "inf"
         THEN IF Sgn(a.v) * Sgn(b.v) = 0 THEN NaN ELSE Inf(Sgn(a.v) * Sgn(b.v))
    ELSE IF a.v = 0 \/ b.v = 0 THEN Zero
    ELSE IF Abs(a.v) > FloatMax \div Abs(b.v) THEN Inf(Sgn(a.v) * Sgn(b.v))
    ELSE F(a.v * b.v)

FAdd(a, b) ==
    IF a.k = "nan" \/ b.k = "nan" THEN NaN
    ELSE IF a.k = "inf" /\ b.k = "inf"
         THEN IF a.v = b.v THEN a ELSE NaN
    ELSE IF a.k = "inf" THEN a
    ELSE IF b.k = "inf" THEN b
    ELSE IF Abs(a.v + b.v) > FloatMax THEN Inf(Sgn(a.v + b.v))
    ELSE F(a.v + b.v)

FNeg(a) == IF a.k = "nan" THEN NaN ELSE [a EXCEPT !.v = -a.v]
FSub(a, b) == FAdd(a, FNeg(b))

\* a < b as numpy compares floats: False when either is NaN
FLess(a, b) ==
    IF a.k = "nan" \/ b.k = "nan" THEN FALSE
    ELSE IF a.k = "inf" /\ b.k = "inf" THEN a.v < b.v
    ELSE IF a.k = "inf" THEN a.v < 0
    ELSE IF b.k = "inf" THEN b.v > 0
    ELSE a.v < b.v

-----------------------------------------------------------------------------
(* np.exp(-t / tau) for t = n / den and tau > 0, scaled by ExpScale:       *)
(* a table of e^-k for the whole part of the argument, interpolated        *)
(* linearly in sixteenths for the fraction.  exp(0) is exactly ExpScale;   *)
(* arguments beyond the table underflow to 0 or overflow to +inf.          *)

ExpTable == <<1000, 368, 135, 50, 18, 7, 2, 1, 0>>
ExpTableLen == Len(ExpTable)

\* ExpScale * e^(-n/d) for n >= 0, d > 0
ExpDecay(n, d) ==
    LET k == n \div d
        y == ((n % d) * 16) \div d
    IN  IF k + 2 > ExpTableLen THEN 0
        ELSE (ExpTable[k + 1] * (16 - y) + ExpTable[k + 2] * y) \div 16

\* np.exp(-t / tau) at t = n / den
ExpNeg(n, den, tau) ==
    IF n >= 0 THEN F(ExpDecay(n, den * tau))
    ELSE IF ExpDecay(-n, den * tau) = 0 THEN Inf(1)
    ELSE F((ExpScale * ExpScale) \div ExpDecay(-n, den * tau))

-----------------------------------------------------------------------------
(* Waveform models.  t is the array of numerators of the time samples over *)
(* the common denominator den; the time constants are in seconds.          *)

\* A * (1 - np.exp(-t / tau_rise)) * np.exp(-t / tau_decay) at one sample
Component(n, den, A, tau_rise, tau_decay) ==
    FMul(FMul(F(A), FSub(F(ExpScale), ExpNeg(n, den, tau_rise))),
         ExpNeg(n, den, tau_decay))

\* component1 + component2 of double_exponential / fast_epsp at one sample
RawDouble(n, den, A1, tau_rise1, tau_decay1, A2, tau_rise2, tau_decay2) ==
    FAdd(Component(n, den, A1, tau_rise1, tau_decay1),
         Component(n, den, A2, tau_rise2, tau_decay2))

double_exponential_unmasked(t, den, A1, tau_rise1, tau_decay1, A2, tau_rise2, tau_decay2) ==
    [i \in 1..Len(t) |->
        RawDouble(t[i], den, A1, tau_rise1, tau_decay1, A2, tau_rise2, tau_decay2)]

double_exponential(t, den, A1, tau_rise1, tau_decay1, A2, tau_rise2, tau_decay2) ==
    LET y == [i \in 1..Len(t) |->
                RawDouble(t[i], den, A1, tau_rise1, tau_decay1, A2, tau_rise2, tau_decay2)]
    IN  [i \in 1..Len(t) |-> IF t[i] < 0 THEN Zero ELSE y[i]]

single_exponential_no_rise(t, den, A, tau_rise, tau_decay) ==
    LET y == [i \in 1..Len(t) |-> FMul(F(A), ExpNeg(t[i], den, tau_decay))]
    IN  [i \in 1..Len(t) |-> IF t[i] < 0 THEN Zero ELSE y[i]]

single_exponential(t, den, A, tau_rise, tau_decay) ==
    LET y == [i \in 1..Len(t) |-> Component(t[i], den, A, tau_rise, tau_decay)]
    IN  [i \in 1..Len(t) |-> IF t[i] < 0 THEN Zero ELSE y[i]]

\* compare_epsps.py
fast_epsp(t, den, A1, tau_rise1, tau_decay1, A2, tau_rise2, tau_decay2) ==
    LET component1 == [i \in 1..Len(t) |-> Component(t[i], den, A1, tau_rise1, tau_decay1)]
        component2 == [i \in 1..Len(t) |-> Component(t[i], den, A2, tau_rise2, tau_decay2)]
        y == [i \in 1..Len(t) |-> FAdd(component1[i], component2[i])]
    IN  [i \in 1..Len(t) |-> IF t[i] < 0 THEN Zero ELSE y[i]]

slow_epsp(t, den, A, tau_rise, tau_decay) ==
    LET y == [i \in 1..Len(t) |-> Component(t[i], den, A, tau_rise, tau_decay)]
    IN  [i \in 1..Len(t) |-> IF t[i] < 0 THEN Zero ELSE y[i]]
-----------------------------------------------------------------------------
(* numpy array constructors *)

\* np.arange(start, stop, step) for step > 0: ceil((stop - start) / step)
\* samples start + i * step
ArangeLenFloor(start, stop, step) ==
    IF stop > start THEN FloorDiv(stop - start, step) ELSE 0

ArangeLenClosed(start, stop, step) ==
    IF stop > start THEN FloorDiv(stop - start, step) + 1 ELSE 0

ArangeLen(start, stop, step) ==
    IF stop > start THEN CeilDiv(stop - start, step) ELSE 0

Arange(start, stop, step) ==
    [i \in 1..ArangeLen(start, stop, step) |-> start + (i - 1) * step]

LinspaceOpenStart(stop, num) == [i \in 1..num |-> i * stop]

\* np.linspace(0, stop, num, endpoint=False): sample i is Linspace[i] / num
Linspace(stop, num) == [i \in 1..num |-> (i - 1) * stop]

\* the elements of a set of numbers in ascending order
SortedSeq(S) ==
    [i \in 1..Cardinality(S) |->
        CHOOSE x \in S : Cardinality({y \in S : y < x}) = i - 1]

\* np.unique: the sorted distinct values
Unique(a) == SortedSeq({a[i] : i \in 1..Len(a)})

RECURSIVE MaxScanLast(_, _, _)
MaxScanLast(a, lo, hi) ==
    IF lo = hi THEN lo
    ELSE LET mid == (lo + hi) \div 2
             l == MaxScanLast(a, lo, mid)
             r == MaxScanLast(a, mid + 1, hi)
         IN  IF FLess(a[r], a[l]) THEN l ELSE r

\* index of the first largest element of a[lo..hi]; the range is halved
\* instead of scanned to keep the evaluation shallow, the earlier index wins ties
RECURSIVE MaxScan(_, _, _)
MaxScan(a, lo, hi) ==
    IF lo = hi THEN lo
    ELSE LET mid == (lo + hi) \div 2
             l == MaxScan(a, lo, mid)
             r == MaxScan(a, mid + 1, hi)
         IN  IF FLess(a[l], a[r]) THEN r ELSE l

FirstNaN(a) == CHOOSE i \in 1..Len(a) : a[i].k = "nan" /\ \A j \in 1..(i - 1) : a[j].k # "nan"
HasNaN(a) == \E i \in 1..Len(a) : a[i].k = "nan"

\* np.argmax: index of the first maximum (of the first NaN if there is one);
\* indices count from 1 here
np_argmax(a) == IF HasNaN(a) THEN FirstNaN(a) ELSE MaxScan(a, 1, Len(a))

np_max(a) == a[np_argmax(a)]

-----------------------------------------------------------------------------
(* Number formatting of write_atf_file.  The text of a number is kept as    *)
(* the decimal number it spells: two numbers are written as the same text   *)
(* exactly when their records are equal.                                    *)

\* p / q rounded to the nearest integer, ties to the even one (p >= 0, q > 0)
RoundHalfEven(p, q) ==
    LET f == p \div q
        r == p % q
    IN  IF 2 * r > q \/ (2 * r = q /\ f % 2 = 1) THEN f + 1 ELSE f

RECURSIVE Pow10(_)
Pow10(k) == IF k = 0 THEN 1 ELSE 10 * Pow10(k - 1)

\* the least j with a * 10^j >= 10^(GDigits - 1) * d
RECURSIVE ScaleUp(_, _, _, _)
ScaleUp(a, d, lo, j) == IF a >= lo * d THEN j ELSE ScaleUp(a * 10, d, lo, j + 1)

\* the least j with q / 10^j < 10^GDigits
RECURSIVE ScaleDown(_, _, _)
ScaleDown(q, hi, j) == IF q < hi THEN j ELSE ScaleDown(q \div 10, hi, j + 1)

\* significant digits of the 'g' presentation type without a precision
GDigits == 6
\* decimals of the '.2f' presentation type
FixedDecimals == 2

GText(neg, m, e) == [k |-> "num", neg |-> neg, m |-> m, e |-> e]
ZeroText == [k |-> "num", neg |-> FALSE, m |-> 0, e |-> 0]
InfText(s) == [k |-> "inf", neg |-> s < 0, m |-> 0, e |-> 0]
NaNText == [k |-> "nan", neg |-> FALSE, m |-> 0, e |-> 0]

\* f"{x:g}" for x = n / d * 10^s, d > 0: x rounded to GDigits significant
\* digits; the text spells m * 10^(e - GDigits + 1), 10^(GDigits - 1) <= m < 10^GDigits
GFormat(n, d, s) ==
    IF n = 0 THEN ZeroText
    ELSE LET a == Abs(n)
             lo == Pow10(GDigits - 1)
             hi == Pow10(GDigits)
             down == ScaleDown(a \div d, hi, 0)
             up == ScaleUp(a, d, lo, 0)
             m == IF down > 0 THEN RoundHalfEven(a, d * Pow10(down))
                  ELSE RoundHalfEven(a * Pow10(up), d)
             e == (GDigits - 1) + down - up + s
         IN  IF m = hi THEN GText(n < 0, lo, e + 1) ELSE GText(n < 0, m, e)

\* f"{t_val:g}" of the time sample n / (den * Unit) seconds; Unit is
\* AutoDelayDivisor * 10^5
TimeText(n, den) == GFormat(n, den * AutoDelayDivisor, -5)

\* f"{i_val:g}" of a current: a finite value is v / ExpScale^2 pA
CurrentText(c) ==
    IF c.k = "nan" THEN NaNText
    ELSE IF c.k = "inf" THEN InfText(c.v)
    ELSE GFormat(c.v, 1, -6)

\* np.min: the smallest element (NaN if there is one)
np_min(a) == FNeg(np_max([i \in 1..Len(a) |-> FNeg(a[i])]))

FixedText(neg, h) == [k |-> "num", neg |-> neg, h |-> h]

\* f"{y:.2f}" for y = (b + r / 10) / ExpScale^2 with 0 <= r <= 9: y rounded
\* to FixedDecimals decimals; the text spells h / 10^FixedDecimals
FixedFormat(b, r) ==
    LET q == Pow10(6 - FixedDecimals)
        f == b \div q
        num == 10 * (b % q) + r
    IN  IF 2 * num > 10 * q \/ (2 * num = 10 * q /\ f % 2 = 1)
        THEN FixedText(b < 0, f + 1)
        ELSE FixedText(b < 0, f)

FixedNonFinite(y) == [k |-> y.k, neg |-> y.v < 0, h |-> 0]

\* y_top = y_max + 0.1 * y_range as written by f'"YTop={y_top:.2f}"'
YTopText(cur) ==
    LET y_max == np_max(cur)
        y_min == np_min(cur)
        y_range == FSub(y_max, y_min)
    IN  IF y_range.k # "num" THEN FixedNonFinite(FAdd(y_max, y_range))
        ELSE FixedFormat(y_max.v + (y_range.v \div 10), y_range.v % 10)

\* y_bottom = y_min - 0.1 * y_range as written by f'"YBottom={y_bottom:.2f}"'
YBottomText(cur) ==
    LET y_max == np_max(cur)
        y_min == np_min(cur)
        y_range == FSub(y_max, y_min)
    IN  IF y_range.k # "num" THEN FixedNonFinite(FSub(y_min, y_range))
        ELSE IF y_range.v % 10 = 0
             THEN FixedFormat(y_min.v - (y_range.v \div 10), 0)
             ELSE FixedFormat(y_min.v - (y_range.v \div 10) - 1, 10 - (y_range.v % 10))

-----------------------------------------------------------------------------
(* Lines of the ATF file.  A line is its kind, the key of a quoted          *)
(* key=value record, and its tab-separated fields.                          *)

Line(kind, key, cols) == [kind |-> kind, key |-> key, cols |-> cols]

\* the two numbers of f.write("8\t2\n")
OptionalHeaderCount == 8
ColumnCount == 2

\* detailed_comment: the model parameters, the delay in ms, the sampling rate
DetailedComment(a, d) ==
    [kinetics |-> IF a.kinetics = "fast" THEN "fast" ELSE "slow",
     params |-> IF a.kinetics = "fast"
                THEN <<a.A1, a.A2, a.tau_rise1, a.tau_decay1, a.tau_rise2, a.tau_decay2>>
                ELSE <<a.A, a.tau_rise, a.tau_decay>>,
     delay |-> d * MsPerSecond,
     sampling_rate |-> a.sampling_rate]

\* the lines written before the display bounds are computed
HeaderLines(a, d) ==
    << Line("version", "ATF", <<"ATF", "1.0">>),
       Line("counts", "", <<OptionalHeaderCount, ColumnCount>>),
       Line("record", "AcquisitionMode", <<"Episodic Stimulation">>),
       Line("record", "Comment", <<DetailedComment(a, d)>>) >>

\* the display bounds and the fixed records after them
BoundsLines(cur) ==
    << Line("record", "YTop", <<YTopText(cur)>>),
       Line("record", "YBottom", <<YBottomText(cur)>>),
       Line("record", "SweepStartTimesMS", <<"0.000">>),
       Line("record", "SignalsExported", <<"IN 0">>),
       Line("record", "Signals", <<"", "IN 0">>) >>

ColumnHeader == Line("columns", "", <<"Time (s)", "IN 0 (pA)">>)

DataRowsFromSecond(t, den, cur) ==
    [i \in 1..((IF Len(t) < Len(cur) THEN Len(t) ELSE Len(cur)) - 1) |->
        Line("data", "", <<TimeText(t[i + 1], den), CurrentText(cur[i + 1])>>)]

\* for t_val, i_val in zip(time, current): one line per pair
DataRows(t, den, cur) ==
    [i \in 1..(IF Len(t) < Len(cur) THEN Len(t) ELSE Len(cur)) |->
        Line("data", "", <<TimeText(t[i], den), CurrentText(cur[i])>>)]

NoFile == [exists |-> FALSE, lines |-> <<>>]

\* open(filename, 'w') creates the file or truncates it
CreatedFile == [exists |-> TRUE, lines |-> <<>>]

WithExitKeepsOpen(h) == h

\* leaving the with block, normally or by an exception, closes the file
WithExit(h) == "closed"

-----------------------------------------------------------------------------
(* generate_time_array (ms) *)

generate_time_array_overlap(duration, dt_fine, dt_coarse, fine_duration) ==
    LET t_fine == Arange(0, fine_duration, dt_fine)
        t_coarse == Arange(0, duration + dt_coarse, dt_coarse)
    IN  Unique(t_fine \o t_coarse)

generate_time_array(duration, dt_fine, dt_coarse, fine_duration) ==
    LET t_fine == Arange(0, fine_duration, dt_fine)
        t_coarse == Arange(fine_duration, duration + dt_coarse, dt_coarse)
    IN  Unique(t_fine \o t_coarse)
-----------------------------------------------------------------------------
(* Command-line arguments *)

\* bounds of the enumerated inputs
MaxDurationSteps == 4
MaxDelaySteps == 2
MaxFineSteps == 2
MaxProbeLen == 2
MaxProbeStep == 2

\* argparse defaults (main)
DefaultArgs ==
    [kinetics |-> "fast",
     A1 |-> 150, tau_rise1 |-> Unit \div 100, tau_decay1 |-> Unit,
     A2 |-> 70, tau_rise2 |-> 3 * Unit, tau_decay2 |-> 20 * Unit,
     A |-> 150, tau_rise |-> 10 * Unit, tau_decay |-> 15 * Unit,
     duration |-> Unit \div 10, delay |-> Unit \div 50,
     auto_delay |-> FALSE, uniform_sampling |-> FALSE,
     sampling_rate |-> 10000,
     dt_fine |-> Unit \div 100, dt_coarse |-> Unit, fine_duration |-> 10 * Unit,
     no_plot |-> FALSE]

\* enumerated values: durations and delays in s, steps and time constants in ms
Durations == {k * 320 : k \in 0..MaxDurationSteps}
Delays == {k * 480 : k \in 0..MaxDelaySteps}
SamplingRates == {10000, 5000}
FineSteps == {64000, 128000}
CoarseSteps == {192000, 256000}
FineDurations == {k * 160000 : k \in 0..MaxFineSteps}
FastParams ==
    {[A1 |-> s * 150, tau_rise1 |-> 64000, tau_decay1 |-> 640000,
      A2 |-> s * 70, tau_rise2 |-> 192000, tau_decay2 |-> 1280000] : s \in {1, -1}}
SlowParams ==
    {[A |-> s * 150, tau_rise |-> 640000, tau_decay |-> 960000] : s \in {1, -1}}

WithKinetics(a) ==
    {[a EXCEPT !.kinetics = "fast", !.A1 = p.A1, !.tau_rise1 = p.tau_rise1,
               !.tau_decay1 = p.tau_decay1, !.A2 = p.A2, !.tau_rise2 = p.tau_rise2,
               !.tau_decay2 = p.tau_decay2] : p \in FastParams}
    \cup
    {[a EXCEPT !.kinetics = "slow", !.A = p.A, !.tau_rise = p.tau_rise,
               !.tau_decay = p.tau_decay] : p \in SlowParams}

\* runs with the default durations and time constants, uniform sampling
DefaultRuns ==
    {[DefaultArgs EXCEPT !.uniform_sampling = TRUE, !.auto_delay = au, !.kinetics = k]
        : au \in BOOLEAN, k \in {"fast", "slow"}}

UniformBase ==
    {[DefaultArgs EXCEPT !.uniform_sampling = TRUE, !.auto_delay = au, !.no_plot = np,
                         !.sampling_rate = r, !.delay = dl, !.duration = du]
        : au \in BOOLEAN, np \in BOOLEAN, r \in SamplingRates, dl \in Delays, du \in Durations}

VariableBase ==
    {[DefaultArgs EXCEPT !.uniform_sampling = FALSE, !.auto_delay = au[1], !.no_plot = au[2],
                         !.delay = dl, !.duration = du, !.dt_fine = st[1],
                         !.dt_coarse = st[2], !.fine_duration = fd]
        : au \in BOOLEAN \X BOOLEAN, dl \in Delays, du \in Durations,
          st \in FineSteps \X CoarseSteps, fd \in FineDurations}

\* variable-sampling runs long enough (more than 128 samples) for the
\* auto-delay to span several steps
LongBase ==
    {[DefaultArgs EXCEPT !.uniform_sampling = FALSE, !.auto_delay = au, !.delay = dl,
                         !.duration = 16000, !.dt_fine = 64000, !.dt_coarse = 256000,
                         !.fine_duration = Unit]
        : au \in BOOLEAN, dl \in Delays}

\* variable-sampling runs of one fine sample and a few coarse samples that
\* lie 1 / Unit s apart, 0.1 s after the start
NarrowBase ==
    {[DefaultArgs EXCEPT !.uniform_sampling = FALSE, !.delay = 0,
                         !.duration = (Unit \div 10) + k,
                         !.dt_fine = 200 * Unit, !.dt_coarse = MsPerSecond,
                         !.fine_duration = 100 * Unit]
        : k \in 1..MaxFineSteps}

\* short uniform runs of a slow waveform of 1 pA that has barely risen
FaintRuns ==
    {[DefaultArgs EXCEPT !.kinetics = "slow", !.A = s, !.tau_rise = 16 * (Unit \div 10),
                         !.tau_decay = Unit \div 4, !.uniform_sampling = TRUE,
                         !.delay = 0, !.duration = du]
        : s \in {1, -1}, du \in Durations}

ArgSets ==
    DefaultRuns \cup FaintRuns \cup
    UNION {WithKinetics(a) : a \in UniformBase \cup VariableBase \cup LongBase \cup NarrowBase}

NoSummary == [printed |-> FALSE]
NoPlot == [drawn |-> FALSE]

-----------------------------------------------------------------------------
(* main *)

Init ==
    /\ pc = "time"
    /\ args \in ArgSets
    /\ delay = 0
    /\ time_ms = <<>>
    /\ time = <<>>
    /\ tden = 1
    /\ current = <<>>
    /\ summary = NoSummary
    /\ plot = NoPlot
    /\ file = NoFile
    /\ handle = "none"
    /\ fn = "main"

\* dt = 1.0 / args.sampling_rate
SamplingInterval(rate) == Unit \div rate

\* uniform sampling: the delay, then np.arange(0, delay + duration, dt)
UniformDelay(a) ==
    LET dt == SamplingInterval(a.sampling_rate)
        total_samples == (a.delay + a.duration) \div dt
    IN  IF a.auto_delay THEN (total_samples * dt) \div AutoDelayDivisor ELSE a.delay

UniformTimeBase ==
    /\ pc = "time"
    /\ args.uniform_sampling
    /\ delay' = UniformDelay(args)
    /\ time' = Arange(0, delay' + args.duration, SamplingInterval(args.sampling_rate))
    /\ tden' = 1
    /\ pc' = "model"
    /\ UNCHANGED <<args, time_ms, current, summary, plot, file, handle, fn>>

\* variable sampling: time_ms = generate_time_array(...)
GenerateTimeArray ==
    /\ pc = "time"
    /\ ~args.uniform_sampling
    /\ time_ms' = generate_time_array(args.duration * MsPerSecond, args.dt_fine,
                                      args.dt_coarse, args.fine_duration)
    /\ pc' = "delay"
    /\ UNCHANGED <<args, delay, time, tden, current, summary, plot, file, handle, fn>>

\* time = time_ms / 1000
SecondsOf(tms) == [i \in 1..Len(tms) |-> tms[i] \div MsPerSecond]

VariableDelay(a, t) ==
    LET dt_avg == t[2] - t[1]
        total_samples == Len(t)
    IN  IF a.auto_delay THEN (total_samples * dt_avg) \div AutoDelayDivisor ELSE a.delay

\* delay_samples = int(delay / (time[1] - time[0]))
DelaySamples(d, t) == d \div (t[2] - t[1])

\* np.concatenate([delay_time, time + delay]) over the denominator den
PrependedTime(d, t, den) ==
    Linspace(d, DelaySamples(d, t)) \o [i \in 1..Len(t) |-> (t[i] + d) * den]

\* variable sampling: the delay and the prepended delay window; time[1] of an
\* array of fewer than two samples raises IndexError (with a fixed delay,
\* after delay = args.delay)
PrependDelay ==
    /\ pc = "delay"
    /\ LET t == SecondsOf(time_ms)
       IN  IF Len(t) < 2
           THEN /\ pc' = "IndexError"
                /\ time' = t
                /\ delay' = IF args.auto_delay THEN delay ELSE args.delay
                /\ UNCHANGED tden
           ELSE /\ delay' = VariableDelay(args, t)
                /\ tden' = IF DelaySamples(delay', t) = 0 THEN 1 ELSE DelaySamples(delay', t)
                /\ time' = PrependedTime(delay', t, tden')
                /\ pc' = "model"
    /\ UNCHANGED <<args, time_ms, current, summary, plot, file, handle, fn>>

TimeStimulusUnshifted(t, den, d) == t

\* time_stimulus = time - delay
TimeStimulus(t, den, d) == [i \in 1..Len(t) |-> t[i] - d * den]

EvaluateFast ==
    /\ pc = "model"
    /\ args.kinetics = "fast"
    /\ current' = double_exponential(TimeStimulus(time, tden, delay), tden,
                      args.A1, args.tau_rise1 \div MsPerSecond,
                      args.tau_decay1 \div MsPerSecond,
                      args.A2, args.tau_rise2 \div MsPerSecond,
                      args.tau_decay2 \div MsPerSecond)
    /\ pc' = "write"
    /\ UNCHANGED <<args, delay, time_ms, time, tden, summary, plot, file, handle, fn>>

EvaluateSlow ==
    /\ pc = "model"
    /\ args.kinetics # "fast"
    /\ current' = single_exponential(TimeStimulus(time, tden, delay), tden,
                      args.A, args.tau_rise \div MsPerSecond,
                      args.tau_decay \div MsPerSecond)
    /\ pc' = "write"
    /\ UNCHANGED <<args, delay, time_ms, time, tden, summary, plot, file, handle, fn>>

\* write_atf_file, the with statement: open(filename, 'w'); a failing open
\* raises OSError before any file object exists
write_atf_file_open ==
    /\ pc = "write"
    /\ \E ok \in BOOLEAN :
          IF ok
          THEN /\ file' = CreatedFile
               /\ handle' = "open"
               /\ pc' = "header"
          ELSE /\ pc' = "OSError"
               /\ UNCHANGED <<file, handle>>
    /\ UNCHANGED <<args, delay, time_ms, time, tden, current, summary, plot, fn>>

\* the header up to the comment; a failing f.write raises OSError out of
\* the with block
write_atf_file_header ==
    /\ pc = "header"
    /\ \E ok \in BOOLEAN :
          IF ok
          THEN /\ file' = [file EXCEPT !.lines = @ \o HeaderLines(args, delay)]
               /\ pc' = "bounds"
               /\ UNCHANGED handle
          ELSE /\ handle' = WithExit(handle)
               /\ pc' = "OSError"
               /\ UNCHANGED file
    /\ UNCHANGED <<args, delay, time_ms, time, tden, current, summary, plot, fn>>

\* the display bounds, the fixed records and the column header; np.max of
\* an empty array raises ValueError out of the with block
write_atf_file_bounds ==
    /\ pc = "bounds"
    /\ IF Len(current) = 0
       THEN /\ handle' = WithExit(handle)
            /\ pc' = "ValueError"
            /\ UNCHANGED file
       ELSE \E ok \in BOOLEAN :
               IF ok
               THEN /\ file' = [file EXCEPT
                                  !.lines = @ \o BoundsLines(current) \o <<ColumnHeader>>]
                    /\ pc' = "data"
                    /\ UNCHANGED handle
               ELSE /\ handle' = WithExit(handle)
                    /\ pc' = "OSError"
                    /\ UNCHANGED file
    /\ UNCHANGED <<args, delay, time_ms, time, tden, current, summary, plot, fn>>

\* the data rows, then the end of the with block; a failing f.write (of
\* the first row, or of a later one) leaves the rows written before it
write_atf_file_data ==
    /\ pc = "data"
    /\ \E ok \in BOOLEAN :
          IF ok
          THEN /\ file' = [file EXCEPT !.lines = @ \o DataRows(time, tden, current)]
               /\ pc' = "summary"
          ELSE /\ \E k \in {0, Len(time) \div 2} :
                     IF k = 0
                     THEN UNCHANGED file
                     ELSE file' = [file EXCEPT !.lines =
                                      @ \o SubSeq(DataRows(time, tden, current), 1, k)]
               /\ pc' = "OSError"
    /\ handle' = WithExit(handle)
    /\ UNCHANGED <<args, delay, time_ms, time, tden, current, summary, plot, fn>>

\* the summary printed after the file is closed, then back in main
write_atf_file_summary ==
    /\ pc = "summary"
    /\ summary' = [printed |-> TRUE,
                   duration |-> time[Len(time)],
                   points |-> Len(time),
                   peak_current |-> np_max(current),
                   peak_time |-> time[np_argmax(current)]]
    /\ pc' = IF args.no_plot THEN "done" ELSE "plot"
    /\ UNCHANGED <<args, delay, time_ms, time, tden, current, plot, file, handle, fn>>

\* plot_stimulus: the peak marker
plot_stimulus ==
    /\ pc = "plot"
    /\ LET peak_idx == np_argmax(current)
       IN  plot' = [drawn |-> TRUE,
                    peak_idx |-> peak_idx,
                    peak_time |-> time[peak_idx],
                    peak_current |-> current[peak_idx]]
    /\ pc' = "done"
    /\ UNCHANGED <<args, delay, time_ms, time, tden, current, summary, file, handle, fn>>

Next ==
    \/ UniformTimeBase
    \/ GenerateTimeArray
    \/ PrependDelay
    \/ EvaluateFast
    \/ EvaluateSlow
    \/ write_atf_file_open
    \/ write_atf_file_header
    \/ write_atf_file_bounds
    \/ write_atf_file_data
    \/ write_atf_file_summary
    \/ plot_stimulus

Spec == Init /\ [][Next]_vars

\* the run is one sequential call chain: inside the with block the
\* statement that can run does run
SpecLive ==
    /\ Spec
    /\ WF_vars(write_atf_file_header)
    /\ WF_vars(write_atf_file_bounds)
    /\ WF_vars(write_atf_file_data)

-----------------------------------------------------------------------------
(* Function-level runs: each waveform function applied to an arbitrary     *)
(* time array (negative, zero and positive samples, den = 1) with          *)
(* amplitudes of either sign or zero and time constants in seconds.        *)

ProbeTimes == {k * 256 : k \in -MaxProbeStep..MaxProbeStep}
ProbeArrays == UNION {[1..n -> ProbeTimes] : n \in 1..MaxProbeLen}
ProbeAmplitudes == {0, 150, -70}
ProbeTaus == {64, 640}
ProbeParams ==
    {[A1 |-> a[1], tau_rise1 |-> r[1], tau_decay1 |-> r[2],
      A2 |-> a[2], tau_rise2 |-> r[3], tau_decay2 |-> r[4],
      A |-> a[1], tau_rise |-> r[1], tau_decay |-> r[2]]
        : a \in ProbeAmplitudes \X ProbeAmplitudes,
          r \in ProbeTaus \X ProbeTaus \X ProbeTaus \X ProbeTaus}

InitWaveform ==
    /\ pc = "call"
    /\ args \in ProbeParams
    /\ time \in ProbeArrays
    /\ tden = 1
    /\ delay = 0
    /\ time_ms = <<>>
    /\ current = <<>>
    /\ summary = NoSummary
    /\ plot = NoPlot
    /\ file = NoFile
    /\ handle = "none"
    /\ fn = "none"

CallDoubleExponential ==
    /\ pc = "call"
    /\ current' = double_exponential(time, tden, args.A1, args.tau_rise1, args.tau_decay1,
                                     args.A2, args.tau_rise2, args.tau_decay2)
    /\ fn' = "double_exponential"
    /\ pc' = "returned"
    /\ UNCHANGED <<args, delay, time_ms, time, tden, summary, plot, file, handle>>

CallSingleExponential ==
    /\ pc = "call"
    /\ current' = single_exponential(time, tden, args.A, args.tau_rise, args.tau_decay)
    /\ fn' = "single_exponential"
    /\ pc' = "returned"
    /\ UNCHANGED <<args, delay, time_ms, time, tden, summary, plot, file, handle>>

CallFastEpsp ==
    /\ pc = "call"
    /\ current' = fast_epsp(time, tden, args.A1, args.tau_rise1, args.tau_decay1,
                            args.A2, args.tau_rise2, args.tau_decay2)
    /\ fn' = "fast_epsp"
    /\ pc' = "returned"
    /\ UNCHANGED <<args, delay, time_ms, time, tden, summary, plot, file, handle>>

CallSlowEpsp ==
    /\ pc = "call"
    /\ current' = slow_epsp(time, tden, args.A, args.tau_rise, args.tau_decay)
    /\ fn' = "slow_epsp"
    /\ pc' = "returned"
    /\ UNCHANGED <<args, delay, time_ms, time, tden, summary, plot, file, handle>>

NextWaveform ==
    \/ CallDoubleExponential
    \/ CallSingleExponential
    \/ CallFastEpsp
    \/ CallSlowEpsp

SpecWaveform == InitWaveform /\ [][NextWaveform]_vars

\* the value of the formula of the function called, before any zeroing
RawValue(i) ==
    IF fn \in {"double_exponential", "fast_epsp"}
    THEN RawDouble(time[i], tden, args.A1, args.tau_rise1, args.tau_decay1,
                   args.A2, args.tau_rise2, args.tau_decay2)
    ELSE Component(time[i], tden, args.A, args.tau_rise, args.tau_decay)

-----------------------------------------------------------------------------
(* C1: every waveform function returns exactly 0 at every sample with      *)
(* t < 0, whatever the formula gave there (a finite value, an infinity or  *)
(* NaN), and leaves the formula's value at every sample with t >= 0.       *)
C1_NegativeTimeIsZero ==
    pc = "returned" =>
        /\ Len(current) = Len(time)
        /\ \A i \in 1..Len(time) :
              /\ time[i] < 0 => current[i] = Zero
              /\ time[i] >= 0 => current[i] = RawValue(i)

\* a call whose formula gives an infinity or NaN at a negative sample, which
\* is returned as 0, with a non-zero sample at t > 0
C1_Witness ==
    /\ pc = "returned"
    /\ fn = "double_exponential"
    /\ \E i, l \in 1..Len(time) :
          /\ time[i] < 0 /\ RawValue(i).k # "num" /\ current[i] = Zero
          /\ time[l] > 0 /\ current[l] # Zero

(* C9: every waveform function returns exactly 0 at every sample with      *)
(* t = 0, for every amplitude and time constants.                          *)
C9_ZeroAtOnset ==
    pc = "returned" =>
        \A i \in 1..Len(time) : time[i] = 0 => current[i] = Zero

\* the slow model with a non-zero amplitude, sampled at 0 and at a later
\* time where the current is not 0
C9_Witness ==
    /\ pc = "returned"
    /\ fn = "single_exponential"
    /\ args.A # 0
    /\ \E i, j \in 1..Len(time) :
          /\ time[i] = 0 /\ current[i] = Zero
          /\ time[j] > 0 /\ current[j] # Zero

-----------------------------------------------------------------------------
(* Positions of main used by the claims *)

\* the positions of a run inside write_atf_file, and those where it failed
InWrite == {"write", "header", "bounds", "data", "summary", "ValueError", "OSError"}

\* the final time array exists
TimeBuilt == fn = "main" /\ pc \in {"model", "plot", "done"} \cup InWrite
\* the current array exists
Evaluated == fn = "main" /\ pc \in {"plot", "done"} \cup InWrite
\* generate_time_array has returned
Generated == fn = "main" /\ ~args.uniform_sampling /\ pc # "time"

\* the formula of the selected kinetics at time numerator n over tden
ModelAt(n) ==
    IF args.kinetics = "fast"
    THEN RawDouble(n, tden, args.A1, args.tau_rise1 \div MsPerSecond,
                   args.tau_decay1 \div MsPerSecond, args.A2,
                   args.tau_rise2 \div MsPerSecond, args.tau_decay2 \div MsPerSecond)
    ELSE Component(n, tden, args.A, args.tau_rise \div MsPerSecond,
                   args.tau_decay \div MsPerSecond)

(* C2: in every run of main (uniform or variable sampling, fixed or auto   *)
(* delay, fast or slow kinetics) the current of a sample is the model at   *)
(* time - delay, and every sample whose time is before the delay has       *)
(* current exactly 0.                                                      *)
C2_DelayWindowIsZero ==
    Evaluated =>
        /\ Len(current) = Len(time)
        /\ \A i \in 1..Len(time) :
              /\ time[i] < delay * tden => current[i] = Zero
              /\ time[i] >= delay * tden => current[i] = ModelAt(time[i] - delay * tden)

\* an auto-delay run with a sample strictly inside the delay window, after
\* time 0, and a non-zero sample after the delay
C2_Witness ==
    /\ Evaluated
    /\ args.auto_delay
    /\ \E i, j \in 1..Len(time) :
          /\ 0 < time[i] /\ time[i] < delay * tden /\ current[i] = Zero
          /\ time[j] > delay * tden /\ current[j] # Zero

(* C3: with uniform sampling at rate R the time array starts at 0, any two *)
(* consecutive samples differ by exactly 1/R, and every sample is strictly *)
(* less than delay + duration.                                             *)
C3_UniformGrid ==
    (TimeBuilt /\ args.uniform_sampling) =>
        /\ Len(time) > 0 => time[1] = 0
        /\ \A i \in 1..(Len(time) - 1) :
              (time[i + 1] - time[i]) * args.sampling_rate = Unit * tden
        /\ \A i \in 1..Len(time) : time[i] < (delay + args.duration) * tden

\* a uniform array of at least three samples whose span is a whole number of
\* steps, so that the next grid point is the span itself
C3_Witness ==
    /\ TimeBuilt
    /\ args.uniform_sampling
    /\ Len(time) >= 3
    /\ time[Len(time)] + (time[2] - time[1]) = delay + args.duration

\* the step 1/R of a sampling rate R that divides Unit
StepOfRate(R) == Unit \div R

(* C4 as stated: with uniform sampling and a span T = delay + duration > 0 *)
(* the array has exactly floor(T * R) samples.  (T * R is T / dt for the   *)
(* step dt = 1/R, which is exact for the modelled rates.)                  *)
C4_FloorCount ==
    (TimeBuilt /\ args.uniform_sampling /\ delay + args.duration > 0) =>
        /\ StepOfRate(args.sampling_rate) * args.sampling_rate = Unit
        /\ Len(time) = FloorDiv(delay + args.duration, StepOfRate(args.sampling_rate))

(* C4 amended: the array has exactly ceil(T * R) samples, the least n with *)
(* n / R >= T; that is T * R when T * R is whole, and 1200 for R = 10000   *)
(* Hz, duration 0.1 s and delay 0.02 s.                                    *)
C4_CeilCount ==
    (TimeBuilt /\ args.uniform_sampling /\ delay + args.duration > 0) =>
        /\ StepOfRate(args.sampling_rate) * args.sampling_rate = Unit
        /\ Len(time) * StepOfRate(args.sampling_rate) >= delay + args.duration
        /\ (Len(time) - 1) * StepOfRate(args.sampling_rate) < delay + args.duration
        /\ (args.sampling_rate = 10000 /\ args.duration = Unit \div 10
              /\ delay = Unit \div 50) => Len(time) = 1200

\* a uniform array whose span is not a whole number of steps: one sample
\* more than floor(T * R)
C4_Witness ==
    /\ TimeBuilt
    /\ args.uniform_sampling
    /\ Len(time) >= 2
    /\ (Len(time) - 1) * StepOfRate(args.sampling_rate) < delay + args.duration
    /\ delay + args.duration < Len(time) * StepOfRate(args.sampling_rate)

(* C5: the array generate_time_array returns is ascending with no value    *)
(* twice; two consecutive points both in [0, fine_duration) are dt_fine    *)
(* apart, two consecutive points both at or after fine_duration are        *)
(* dt_coarse apart.                                                        *)
C5_VariableSpacing ==
    Generated =>
        /\ \A i, j \in 1..Len(time_ms) : i < j => time_ms[i] < time_ms[j]
        /\ \A i \in 1..(Len(time_ms) - 1) :
              /\ (0 <= time_ms[i] /\ time_ms[i + 1] < args.fine_duration)
                    => time_ms[i + 1] - time_ms[i] = args.dt_fine
              /\ time_ms[i] >= args.fine_duration
                    => time_ms[i + 1] - time_ms[i] = args.dt_coarse

\* an array with at least two points in the fine window and two in the coarse
\* window, the fine window not a whole number of fine steps
C5_Witness ==
    /\ Generated
    /\ \E i, j \in 1..(Len(time_ms) - 1) :
          /\ time_ms[i + 1] < args.fine_duration
          /\ time_ms[j] >= args.fine_duration
    /\ args.fine_duration % args.dt_fine # 0

(* C6 as stated: every point generate_time_array returns lies in           *)
(* [0, duration].                                                          *)
C6_WithinDuration ==
    Generated =>
        \A i \in 1..Len(time_ms) :
            0 <= time_ms[i] /\ time_ms[i] <= args.duration * MsPerSecond

(* C7: the final time array is strictly increasing, in both sampling modes *)
(* and with the delay window prepended.                                    *)
C7_StrictlyIncreasing ==
    TimeBuilt => \A i \in 1..(Len(time) - 1) : time[i] < time[i + 1]

\* variable sampling with at least two samples in the prepended delay window
C7_Witness ==
    /\ TimeBuilt
    /\ ~args.uniform_sampling
    /\ DelaySamples(delay, SecondsOf(time_ms)) >= 2
    /\ Len(time) = Len(time_ms) + DelaySamples(delay, SecondsOf(time_ms))

(* C8 as stated: with auto-delay the delay is (number of samples of the    *)
(* time array produced / 64) times the step: 1/R with uniform sampling,    *)
(* the average step (last - first) / (samples - 1) with variable sampling. *)
C8_AutoDelayOfProducedArray ==
    (TimeBuilt /\ args.auto_delay) =>
        IF args.uniform_sampling
        THEN delay * AutoDelayDivisor = Len(time) * StepOfRate(args.sampling_rate)
        ELSE delay * AutoDelayDivisor * (Len(time) - 1) * tden
                = Len(time) * (time[Len(time)] - time[1])

\* idx is the first index at which the current array takes its maximum
FirstMaxIndex(idx) ==
    /\ idx \in 1..Len(current)
    /\ \A j \in 1..Len(current) : ~FLess(current[idx], current[j])
    /\ \A j \in 1..(idx - 1) : FLess(current[j], current[idx])

(* C10: the peak write_atf_file reports and the peak plot_stimulus marks   *)
(* have the maximum of the current array as value, and as time the time    *)
(* sample at the first index where that maximum occurs; plot_stimulus's    *)
(* index is that first index.                                              *)
C10_PeakIsFirstMaximum ==
    /\ (fn = "main" /\ summary.printed) =>
          \E idx \in 1..Len(current) :
              /\ FirstMaxIndex(idx)
              /\ summary.peak_current = current[idx]
              /\ summary.peak_time = time[idx]
    /\ (fn = "main" /\ plot.drawn) =>
          /\ FirstMaxIndex(plot.peak_idx)
          /\ plot.peak_current = current[plot.peak_idx]
          /\ plot.peak_time = time[plot.peak_idx]

\* a plotted run whose maximum occurs at several indices, the first of them
\* not the first sample
C10_Witness ==
    /\ fn = "main"
    /\ summary.printed
    /\ plot.drawn
    /\ plot.peak_idx > 1
    /\ \E j \in 1..Len(current) : j > plot.peak_idx /\ current[j] = current[plot.peak_idx]

-----------------------------------------------------------------------------
\* write_atf_file has written the whole file and closed it
Written == fn = "main" /\ pc \in {"summary", "plot", "done"}

\* the positions of the column header row in a sequence of lines
ColumnRows(L) == {i \in 1..Len(L) : L[i].kind = "columns"}

(* C11: write_atf_file emits the metadata header, then exactly one          *)
(* two-column header row, then exactly one data row per sample: at no       *)
(* moment is there a data row before the column header, and once the file   *)
(* is written the lines before the one header row are all metadata, the     *)
(* lines after it are all data rows, there are Len(time) of them, and row i *)
(* holds the texts of time[i] and current[i].                               *)
C11_RowsFollowHeaderInOrder ==
    /\ \A i \in 1..Len(file.lines) :
          file.lines[i].kind = "data" =>
             \E j \in 1..(i - 1) : file.lines[j].kind = "columns"
    /\ Written =>
          /\ Cardinality(ColumnRows(file.lines)) = 1
          /\ LET h == CHOOSE i \in ColumnRows(file.lines) : TRUE
             IN  /\ h > 1
                 /\ Len(file.lines[h].cols) = 2
                 /\ \A i \in 1..(h - 1) :
                       file.lines[i].kind \in {"version", "counts", "record"}
                 /\ Len(file.lines) - h = Len(time)
                 /\ \A i \in 1..Len(time) :
                       /\ file.lines[h + i].kind = "data"
                       /\ file.lines[h + i].cols[1] = TimeText(time[i], tden)
                       /\ file.lines[h + i].cols[2] = CurrentText(current[i])

\* a written file of at least three samples whose rows differ
C11_Witness ==
    /\ Written
    /\ Len(time) > 2
    /\ \E i \in 1..Len(file.lines) :
          /\ i + 2 <= Len(file.lines)
          /\ file.lines[i].kind = "columns"
          /\ file.lines[i + 1].cols # file.lines[i + 2].cols
          /\ file.lines[i + 1].cols[2] # file.lines[i + 2].cols[2]

-----------------------------------------------------------------------------
\* the data rows of a sequence of lines
DataLines(L) == SelectSeq(L, LAMBDA l : l.kind = "data")

\* the number a 'g' text spells is n / d * 10^s rounded to GDigits
\* significant digits: it differs from it by at most half a unit of its
\* last digit
Near(x, n, d, s) ==
    LET sh == x.e - (GDigits - 1) - s
    IN  /\ x.k = "num"
        /\ IF x.m = 0 THEN n = 0
           ELSE /\ x.neg = (n < 0)
                /\ IF sh >= 0
                   THEN 2 * Abs(x.m * Pow10(sh) * d - Abs(n)) <= Pow10(sh) * d
                   ELSE 2 * Abs(x.m * d - Abs(n) * Pow10(-sh)) <= d

NearCurrent(x, c) ==
    IF c.k = "num" THEN Near(x, c.v, 1, -6) ELSE x = CurrentText(c)

(* C12: round trip.  The data rows of a written file, parsed back, give the *)
(* original (time, current) pairs within the precision of the format, and   *)
(* the format is unambiguous: two distinct time samples of the array are    *)
(* never written as the same time text.                                     *)
C12_RoundTripUnambiguous ==
    Written =>
       LET rows == DataLines(file.lines)
       IN  /\ Len(rows) = Len(time)
           /\ \A i \in 1..Len(rows) :
                 /\ Near(rows[i].cols[1], time[i], tden * AutoDelayDivisor, -5)
                 /\ NearCurrent(rows[i].cols[2], current[i])
           /\ Cardinality({rows[i].cols[1] : i \in 1..Len(rows)})
                 = Cardinality({time[i] : i \in 1..Len(time)})

-----------------------------------------------------------------------------
(* C13: a zero-length time array is rejected or special-cased: a run whose  *)
(* time array is empty never fails on the maximum of an empty array         *)
(* (numpy's ValueError), and no stimulus file is created for it or left     *)
(* partially written.                                                       *)
C13_EmptyArrayRejected ==
    (TimeBuilt /\ Len(time) = 0) =>
       /\ pc # "ValueError"
       /\ ~file.exists

-----------------------------------------------------------------------------
\* the display bounds have been written
BoundsWritten == fn = "main" /\ pc \in {"data", "summary", "plot", "done"}

\* the field of the record `key` of the file
RecordField(key) ==
    LET i == CHOOSE j \in 1..Len(file.lines) :
                file.lines[j].kind = "record" /\ file.lines[j].key = key
    IN  file.lines[i].cols[1]

\* the '.2f' text x spells y = (b + r / 10) / ExpScale^2 to within half a
\* unit of its last decimal
NearFixed(x, b, r) ==
    LET q == Pow10(6 - FixedDecimals)
    IN  /\ x.k = "num"
        /\ Abs(10 * (x.h * q - b) - r) <= 5 * q

(* C14: the display bounds written by write_atf_file are                    *)
(* YTop = max(current) + 10% of (max - min) and                             *)
(* YBottom = min(current) - 10% of (max - min), and the written values      *)
(* bracket the data: written YBottom <= min(current) <= max(current) <=     *)
(* written YTop.                                                            *)
C14_BoundsBracketData ==
    BoundsWritten =>
       LET y_max == np_max(current).v
           y_min == np_min(current).v
           tenth == (y_max - y_min) \div 10
           rest == (y_max - y_min) % 10
           top == RecordField("YTop")
           bottom == RecordField("YBottom")
       IN  /\ NearFixed(top, y_max + tenth, rest)
           /\ NearFixed(bottom, y_min - tenth - 1, 10 - rest)
           /\ bottom.h * Pow10(6 - FixedDecimals) <= y_min
           /\ y_min <= y_max
           /\ y_max <= top.h * Pow10(6 - FixedDecimals)

-----------------------------------------------------------------------------
\* the positions of a run inside the with block of write_atf_file
InWithBlock == {"header", "bounds", "data"}

(* C15: the output file handle is the one resource write_atf_file holds,    *)
(* and it is released on every path: it is open only while the run is       *)
(* inside the with block, never once the summary is printed, control is     *)
(* back in main or an error has reached the caller, and an open handle is   *)
(* eventually closed.                                                       *)
C15_HandleReleased ==
    /\ [](handle = "open" => pc \in InWithBlock)
    /\ [](pc \in {"ValueError", "summary", "plot", "done"} => handle = "closed")
    /\ ((handle = "open") ~> (handle = "closed"))

\* an error raised while the data rows were being written, the handle closed
C15_Witness ==
    /\ pc = "OSError"
    /\ handle = "closed"
    /\ \E i \in 1..Len(file.lines) : file.lines[i].kind = "data"

-----------------------------------------------------------------------------
(* C16: the optional-header record count declared on the second line of    *)
(* the file (the first number of the "8\t2" line) equals the number of      *)
(* metadata lines written between that line and the column header row, and  *)
(* the declared column count equals the number of columns of the header     *)
(* row and of every data row.                                               *)
C16_DeclaredCountsMatch ==
    BoundsWritten =>
       LET L == file.lines
           h == CHOOSE i \in ColumnRows(L) : TRUE
           records == {i \in 3..(h - 1) : L[i].kind = "record"}
       IN  /\ L[2].kind = "counts"
           /\ records = 3..(h - 1)
           /\ L[2].cols[1] = Cardinality(records)
           /\ L[2].cols[2] = Len(L[h].cols)
           /\ \A i \in 1..Len(L) : L[i].kind = "data" => Len(L[i].cols) = L[2].cols[2]
=============================================================================
